---------------------------- MODULE Spec2Model ----------------------------
(***************************************************************************)
(* Model of utility_functions.py: the attack counter, the per-game attack  *)
(* table, the square numbering helpers and the gaussian surface.           *)
(*                                                                         *)
(* Python values are modelled as follows.                                  *)
(*   - a str is a sequence of one-character strings;                       *)
(*   - the outcome of a call is a record with kind "return" or "raise";    *)
(*   - a chess.Board is a record [pieces, turn]; pieces maps the squares   *)
(*     0..63 to a piece record, NoPiece standing for None;                 *)
(*   - chess.WHITE is TRUE and chess.BLACK is FALSE, as in the library.    *)
(***************************************************************************)
EXTENDS Integers, Sequences, FiniteSets, TLC

VARIABLES
    \* get_game_as_attack_df
    game,                \* the caller's game record: [board, moves]
    game_board,          \* the working board
    game_as_attacks_df,  \* the DataFrame: a sequence of [label, white, black]
    i,                   \* the enumerate() counter of the replay loop
    pc,                  \* position inside get_game_as_attack_df
    result,              \* what get_game_as_attack_df gave the caller
    \* get_attack_count_by_color
    chess_board,         \* the board argument
    color,               \* the color argument (a str)
    ac_pc,               \* "call" before the call, "done" after
    ac_out,              \* outcome of the call
    \* create_XYZ
    attack_matrix,       \* the 8x8 count matrix argument
    datapoints_along_square,
    xyz_pc,
    xyz_out,
    \* square numbering helpers
    square_numb,         \* the square number argument
    sq_pc,
    coords,              \* square_numb_to_2d_coords(square_numb)
    numb_back            \* coords_to_square_numb(coords)

vars == <<game, game_board, game_as_attacks_df, i, pc, result,
          chess_board, color, ac_pc, ac_out,
          attack_matrix, datapoints_along_square, xyz_pc, xyz_out,
          square_numb, sq_pc, coords, numb_back>>

gameVars == <<game, game_board, game_as_attacks_df, i, pc, result>>
acVars == <<chess_board, color, ac_pc, ac_out>>
xyzVars == <<attack_matrix, datapoints_along_square, xyz_pc, xyz_out>>
sqVars == <<square_numb, sq_pc, coords, numb_back>>

-----------------------------------------------------------------------------
(* Bounds of the model.                                                    *)

\* longest move sequence of a game record
MaxMoves == 2
\* largest count placed in an attack matrix handed to create_XYZ
MaxCount == 5
\* largest datapoints_along_square handed to create_XYZ
MaxDal == 4

-----------------------------------------------------------------------------
\* TRUE; v is evaluated to tell.  A loop asks it of its accumulator, so that
\* every iteration starts from a value and not from a pending computation.
Evaluated(v) == v = v

-----------------------------------------------------------------------------
(* The chess package, as far as utility_functions.py uses it.              *)

\* chess.SQUARES
SQUARES == 0 .. 63

WHITE == TRUE
BLACK == FALSE

NoPiece == [color |-> FALSE, type |-> "none"]

Piece(c, t) == [color |-> c, type |-> t]

square_file(s) == s % 8
square_rank(s) == s \div 8

\* the square at file f and rank r, for f and r on the board
square_at(f, r) == r * 8 + f

OnBoard(f, r) == f \in 0 .. 7 /\ r \in 0 .. 7

\* board.piece_at(square)
piece_at(board, square) == board.pieces[square]

KnightSteps == {<<1, 2>>, <<2, 1>>, <<2, -1>>, <<1, -2>>,
                <<-1, -2>>, <<-2, -1>>, <<-2, 1>>, <<-1, 2>>}
KingSteps == {<<1, 0>>, <<1, 1>>, <<0, 1>>, <<-1, 1>>,
              <<-1, 0>>, <<-1, -1>>, <<0, -1>>, <<1, -1>>}
RookDirs == {<<1, 0>>, <<0, 1>>, <<-1, 0>>, <<0, -1>>}
BishopDirs == {<<1, 1>>, <<-1, 1>>, <<-1, -1>>, <<1, -1>>}

\* squares one step away from s
StepAttacks(s, steps) ==
    { square_at(square_file(s) + d[1], square_rank(s) + d[2]) :
        d \in { e \in steps : OnBoard(square_file(s) + e[1], square_rank(s) + e[2]) } }

\* the n-th square from s in direction d is on the board, and the squares
\* before it on the way are empty
RayReaches(board, s, d, n) ==
    /\ OnBoard(square_file(s) + n * d[1], square_rank(s) + n * d[2])
    /\ \A j \in 1 .. (n - 1) :
         board.pieces[square_at(square_file(s) + j * d[1],
                                square_rank(s) + j * d[2])] = NoPiece

\* squares along the rays from s, up to and including the first occupied one
RayAttacks(board, s, dirs) ==
    { square_at(square_file(s) + e[2] * e[1][1], square_rank(s) + e[2] * e[1][2]) :
        e \in { dn \in dirs \X (1 .. 7) : RayReaches(board, s, dn[1], dn[2]) } }

\* board.attacks(square): the squares attacked by the piece on square
attacks(board, square) ==
    LET p == board.pieces[square] IN
    CASE p.type = "P" ->
           StepAttacks(square, IF p.color = WHITE THEN {<<-1, 1>>, <<1, 1>>}
                                                  ELSE {<<-1, -1>>, <<1, -1>>})
      [] p.type = "N" -> StepAttacks(square, KnightSteps)
      [] p.type = "K" -> StepAttacks(square, KingSteps)
      [] p.type = "R" -> RayAttacks(board, square, RookDirs)
      [] p.type = "B" -> RayAttacks(board, square, BishopDirs)
      [] p.type = "Q" -> RayAttacks(board, square, RookDirs \cup BishopDirs)
      [] OTHER -> {}

-----------------------------------------------------------------------------
(* str.lower                                                               *)

UpperCase == <<"A", "B", "C", "D", "E", "F", "G", "H", "I", "J", "K", "L", "M",
               "N", "O", "P", "Q", "R", "S", "T", "U", "V", "W", "X", "Y", "Z">>
LowerCase == <<"a", "b", "c", "d", "e", "f", "g", "h", "i", "j", "k", "l", "m",
               "n", "o", "p", "q", "r", "s", "t", "u", "v", "w", "x", "y", "z">>

lower_char(c) ==
    IF \E k \in 1 .. Len(UpperCase) : UpperCase[k] = c
    THEN LowerCase[CHOOSE k \in 1 .. Len(UpperCase) : UpperCase[k] = c]
    ELSE c

str_lower(s) == [k \in 1 .. Len(s) |-> lower_char(s[k])]

-----------------------------------------------------------------------------
(* get_occupied_squares_by_color                                           *)

\* the loop of lines 25-27 over the squares first .. last of chess.SQUARES, in
\* order (the range is walked half by half)
RECURSIVE occupied_loop(_, _, _, _, _)
occupied_loop(board, c, first, last, squares) ==
    IF first > last \/ ~Evaluated(squares) THEN squares
    ELSE IF first = last
    THEN IF piece_at(board, first) # NoPiece /\ piece_at(board, first).color = c
         THEN Append(squares, first)
         ELSE squares
    ELSE occupied_loop(board, c, (first + last) \div 2 + 1, last,
                       occupied_loop(board, c, first, (first + last) \div 2, squares))

\* Any other color is taken for black.
get_occupied_squares_by_color_default(board, col) ==
    [kind |-> "list",
     squares |-> occupied_loop(board, str_lower(col) = <<"w", "h", "i", "t", "e">>,
                               0, 63, <<>>)]

\* The value returned: a list of squares, or (line 22) a ValueError object that
\* is returned, not raised.
get_occupied_squares_by_color(board, col) ==
    IF str_lower(col) = <<"w", "h", "i", "t", "e">>
    THEN [kind |-> "list", squares |-> occupied_loop(board, WHITE, 0, 63, <<>>)]
    ELSE IF str_lower(col) = <<"b", "l", "a", "c", "k">>
    THEN [kind |-> "list", squares |-> occupied_loop(board, BLACK, 0, 63, <<>>)]
    ELSE [kind |-> "ValueError", squares |-> <<>>]

-----------------------------------------------------------------------------
(* The square numbering helpers                                            *)

\* Row and column exchanged.
square_numb_to_2d_coords_swapped(n) == <<n % 8, n \div 8>>

square_numb_to_2d_coords(n) == <<n \div 8, n % 8>>

\* Row and column exchanged.
coords_to_square_numb_swapped(x, y) == y * 8 + x

coords_to_square_numb(x, y) == x * 8 + y

-----------------------------------------------------------------------------
(* get_attack_count_by_color                                               *)

\* np.zeros(shape=(8, 8), dtype=numpy.int8)
zeros_8x8 == [x \in 0 .. 7 |-> [y \in 0 .. 7 |-> 0]]

\* += 1 on a numpy.int8 cell wraps around
int8_inc(v) == IF v = 127 THEN -128 ELSE v + 1

\* the loop of lines 63-66 over the squares first .. last of chess.SQUARES, in
\* order (the range is walked half by half)
RECURSIVE count_attacked(_, _, _, _)
count_attacked(attacked_squares, first, last, attack_count) ==
    IF first > last \/ ~Evaluated(attack_count) THEN attack_count
    ELSE IF first = last
    THEN IF attacked_squares[first]
         THEN LET xy == square_numb_to_2d_coords(first) IN
              [attack_count EXCEPT ![xy[1]][xy[2]] = int8_inc(@)]
         ELSE attack_count
    ELSE count_attacked(attacked_squares, (first + last) \div 2 + 1, last,
                        count_attacked(attacked_squares, first, (first + last) \div 2,
                                       attack_count))

\* SquareSet.tolist(): one boolean for each square
tolist(square_set) == [s \in SQUARES |-> s \in square_set]

\* the loop of lines 58-66 over occupied_squares from position k on
RECURSIVE count_occupied(_, _, _, _)
count_occupied(board, occupied_squares, k, attack_count) ==
    IF k > Len(occupied_squares) \/ ~Evaluated(attack_count) THEN attack_count
    ELSE count_occupied(board, occupied_squares, k + 1,
            count_attacked(tolist(attacks(board, occupied_squares[k])), 0, 63,
                           attack_count))

\* lines 58-68 with the counted pieces taken off the board that was passed in
count_and_clear(board, occupied_squares) ==
    [kind |-> "return", exc |-> "",
     value |-> count_occupied(board, occupied_squares.squares, 1, zeros_8x8),
     board |-> [board EXCEPT !.pieces =
                  [s \in SQUARES |->
                     IF \E k \in 1 .. Len(occupied_squares.squares) :
                            occupied_squares.squares[k] = s
                     THEN NoPiece ELSE board.pieces[s]]]]

\* lines 58-68, given what get_occupied_squares_by_color returned.  The for
\* statement of line 58 raises TypeError when occupied_squares is the
\* ValueError object, which is not iterable.
count_attacks_of(board, occupied_squares) ==
    IF occupied_squares.kind # "list"
    THEN [kind |-> "raise", exc |-> "TypeError", value |-> <<>>, board |-> board]
    ELSE [kind |-> "return", exc |-> "",
          value |-> count_occupied(board, occupied_squares.squares, 1, zeros_8x8),
          board |-> board]

\* The counted pieces are taken off the board that was passed in.
get_attack_count_by_color_clearing(board, col) ==
    count_and_clear(board, get_occupied_squares_by_color(board, col))

\* The outcome of the call, and the board object as the call leaves it.
get_attack_count_by_color(board, col) ==
    count_attacks_of(board, get_occupied_squares_by_color(board, col))

-----------------------------------------------------------------------------
(* Boards and moves of the chess package                                   *)

\* chess.Board(): the standard starting position, white to move
BackRank == <<"R", "N", "B", "Q", "K", "B", "N", "R">>

StartingBoard ==
    [pieces |-> [s \in SQUARES |->
                   CASE square_rank(s) = 0 -> Piece(WHITE, BackRank[square_file(s) + 1])
                     [] square_rank(s) = 1 -> Piece(WHITE, "P")
                     [] square_rank(s) = 6 -> Piece(BLACK, "P")
                     [] square_rank(s) = 7 -> Piece(BLACK, BackRank[square_file(s) + 1])
                     [] OTHER -> NoPiece],
     turn |-> WHITE]

\* a board holding the pieces placed[k] on the squares at[k]
BoardOf(placed, at, turn) ==
    [pieces |-> [s \in SQUARES |->
                   IF \E k \in 1 .. Len(at) : at[k] = s
                   THEN placed[CHOOSE k \in 1 .. Len(at) : at[k] = s]
                   ELSE NoPiece],
     turn |-> turn]

\* a game record set up from a FEN header: Ra1, Ke1, Pe2 against Nb8, Ke8, Pe7
EndgameBoard ==
    BoardOf(<<Piece(WHITE, "R"), Piece(WHITE, "K"), Piece(WHITE, "P"),
              Piece(BLACK, "N"), Piece(BLACK, "K"), Piece(BLACK, "P")>>,
            <<0, 4, 12, 57, 60, 52>>, WHITE)

Move(from, to) == [from_square |-> from, to_square |-> to]

\* board.push(move): the piece is moved and the turn passes; the move is not
\* checked
push(board, move) ==
    [pieces |-> [s \in SQUARES |->
                   IF s = move.to_square THEN board.pieces[move.from_square]
                   ELSE IF s = move.from_square THEN NoPiece
                   ELSE board.pieces[s]],
     turn |-> ~board.turn]

\* squares a pawn on s may move to
PawnTargets(board, s) ==
    LET p == board.pieces[s]
        dir == IF p.color = WHITE THEN 1 ELSE -1
        home == IF p.color = WHITE THEN 1 ELSE 6
        f == square_file(s)
        r == square_rank(s)
        one == square_at(f, r + dir)
        two == square_at(f, r + 2 * dir)
    IN  { t \in attacks(board, s) :
            board.pieces[t] # NoPiece /\ board.pieces[t].color # p.color }
        \cup (IF OnBoard(f, r + dir) /\ board.pieces[one] = NoPiece
              THEN {one} ELSE {})
        \cup (IF r = home /\ board.pieces[one] = NoPiece /\ board.pieces[two] = NoPiece
              THEN {two} ELSE {})

\* a move of the side to move that follows the moving piece's movement rule
\* (castling, en passant, promotion and checks are left out of the move set)
is_legal(board, move) ==
    LET p == board.pieces[move.from_square] IN
    /\ p # NoPiece
    /\ p.color = board.turn
    /\ IF p.type = "P"
       THEN move.to_square \in PawnTargets(board, move.from_square)
       ELSE /\ move.to_square \in attacks(board, move.from_square)
            /\ \/ board.pieces[move.to_square] = NoPiece
               \/ board.pieces[move.to_square].color # p.color

-----------------------------------------------------------------------------
(* pandas.DataFrame                                                        *)

\* pd.DataFrame(columns=["white", "black"])
empty_df == <<>>

\* df.loc[label] = [white, black]: the row of that label is replaced, and a
\* label the frame does not hold is appended
loc_set(df, label, white, black) ==
    LET row == [label |-> label, white |-> white, black |-> black] IN
    IF \E k \in 1 .. Len(df) : df[k].label = label
    THEN [k \in 1 .. Len(df) |-> IF df[k].label = label THEN row ELSE df[k]]
    ELSE Append(df, row)

-----------------------------------------------------------------------------
(* Outcomes                                                                *)

NoOutcome == [kind |-> "none", exc |-> "", value |-> <<>>]
Returned(v) == [kind |-> "return", exc |-> "", value |-> v]
Raised(e) == [kind |-> "raise", exc |-> e, value |-> <<>>]

-----------------------------------------------------------------------------
(* get_game_as_attack_df                                                   *)

White == <<"w", "h", "i", "t", "e">>
Black == <<"b", "l", "a", "c", "k">>

\* the moves game records are made of
\* (e2e4, e7e5, e2e5 and a1a8)
MoveChoices == {Move(12, 28), Move(52, 36), Move(12, 36), Move(0, 56)}

RECURSIVE SeqsUpTo(_, _)
SeqsUpTo(S, n) ==
    IF n = 0 THEN {<<>>}
    ELSE LET shorter == SeqsUpTo(S, n - 1) IN
         shorter \cup { Append(q, x) : q \in { r \in shorter : Len(r) = n - 1 }, x \in S }

Games == { [board |-> b, moves |-> ms] :
             b \in {StartingBoard, EndgameBoard}, ms \in SeqsUpTo(MoveChoices, MaxMoves) }

\* the row [get_attack_count_by_color(board, "white"),
\*          get_attack_count_by_color(board, "black")], and the board afterwards
make_row(w, b) == [white |-> w, black |-> b, board |-> b.board]

black_after(w) == make_row(w, get_attack_count_by_color(w.board, Black))

attack_row(board) == black_after(get_attack_count_by_color(board, White))

\* df.loc[label] = row, row being what attack_row gave
store(label, row) ==
    /\ game_board' = row.board
    /\ game_as_attacks_df' =
         loc_set(game_as_attacks_df, label, row.white.value, row.black.value)

\* lines 78-80
Begin ==
    /\ pc = "call"
    /\ game_board' = game.board
    /\ game_as_attacks_df' = empty_df
    /\ pc' = "row0"
    /\ UNCHANGED <<game, i, result, acVars, xyzVars, sqVars>>

\* lines 82-85
InitialRow ==
    /\ pc = "row0"
    /\ store(0, attack_row(game_board))
    /\ pc' = "loop"
    /\ UNCHANGED <<game, i, result, acVars, xyzVars, sqVars>>

\* lines 87-88: the next move of game.mainline_moves() is pushed
PushMove ==
    /\ pc = "loop"
    /\ i < Len(game.moves)
    /\ game_board' = push(game_board, game.moves[i + 1])
    /\ pc' = "row"
    /\ UNCHANGED <<game, game_as_attacks_df, i, result, acVars, xyzVars, sqVars>>

\* line 88: the chess package may reject a move that is not legal (its push
\* asserts on some of them); utility_functions.py catches nothing
PushRaises ==
    /\ pc = "loop"
    /\ i < Len(game.moves)
    /\ ~is_legal(game_board, game.moves[i + 1])
    /\ result' = Raised("AssertionError")
    /\ pc' = "raised"
    /\ UNCHANGED <<game, game_board, game_as_attacks_df, i, acVars, xyzVars, sqVars>>

\* lines 89-92, and the step of enumerate()
StoreRow ==
    /\ pc = "row"
    /\ store(i, attack_row(game_board))
    /\ i' = i + 1
    /\ pc' = "loop"
    /\ UNCHANGED <<game, result, acVars, xyzVars, sqVars>>

\* line 94
Return ==
    /\ pc = "loop"
    /\ i = Len(game.moves)
    /\ result' = Returned(game_as_attacks_df)
    /\ pc' = "done"
    /\ UNCHANGED <<game, game_board, game_as_attacks_df, i, acVars, xyzVars, sqVars>>

-----------------------------------------------------------------------------
(* Calls of get_attack_count_by_color                                      *)

Colors == { <<"w", "h", "i", "t", "e">>, <<"W", "H", "I", "T", "E">>,
            <<"W", "h", "i", "t", "e">>, <<"b", "l", "a", "c", "k">>,
            <<"B", "L", "A", "C", "K">>, <<"b", "L", "a", "C", "k">>,
            <<"b", "l", "u", "e">>, <<>>, <<"w", "h", "i", "t">>,
            <<"b", "l", "a", "c", "k", "s">> }

PieceLists == { <<Piece(WHITE, "Q"), Piece(WHITE, "N"), Piece(BLACK, "R")>>,
                <<Piece(WHITE, "P"), Piece(BLACK, "P"), Piece(WHITE, "K")>>,
                <<Piece(BLACK, "B"), Piece(BLACK, "Q"), Piece(WHITE, "R")>> }

PlacementSquares == {0, 27, 28, 35, 63}

Placements == { at \in [1 .. 3 -> PlacementSquares] :
                  \A a, b \in 1 .. 3 : a # b => at[a] # at[b] }

Boards == {StartingBoard, EndgameBoard}
          \cup { BoardOf(pl, at, WHITE) : pl \in PieceLists, at \in Placements }

\* the caller gets the outcome; the board object is as the call left it
finish_call(r) ==
    /\ ac_out' = [kind |-> r.kind, exc |-> r.exc, value |-> r.value]
    /\ chess_board' = r.board

CallAttackCount ==
    /\ ac_pc = "call"
    /\ finish_call(get_attack_count_by_color(chess_board, color))
    /\ ac_pc' = "done"
    /\ UNCHANGED <<color, gameVars, xyzVars, sqVars>>

-----------------------------------------------------------------------------
(* Calls of the square numbering helpers                                   *)

CallToCoords ==
    /\ sq_pc = "call"
    /\ coords' = square_numb_to_2d_coords(square_numb)
    /\ sq_pc' = "coords"
    /\ UNCHANGED <<square_numb, numb_back, gameVars, acVars, xyzVars>>

CallToSquareNumb ==
    /\ sq_pc = "coords"
    /\ numb_back' = coords_to_square_numb(coords[1], coords[2])
    /\ sq_pc' = "done"
    /\ UNCHANGED <<square_numb, coords, gameVars, acVars, xyzVars>>

-----------------------------------------------------------------------------
(* gaussian_3d and create_XYZ                                              *)
(*                                                                         *)
(* dal / 2 is a float division, so peaks and spreads are multiples of one  *)
(* half.  The model carries them doubled (peak2 = 2 * peak, spread2 =      *)
(* 2 * spread, and the grid coordinates doubled likewise), which leaves    *)
(* the quotients of lines 130-131 as they are.  A float that gaussian_3d   *)
(* returns is carried exactly, as [height, num, den] standing for          *)
(* height * exp(-(num / den)); exp(-0.0) is 1.0, and for num > 0 the       *)
(* factor lies strictly between 0 and 1.                                   *)

FloatZero == [height |-> 0, num |-> 0, den |-> 1]

\* the float is 0.0
float_is_zero(z) == z.height = 0

\* the float equals the integer c
float_equals(z, c) == IF z.num = 0 THEN z.height = c ELSE z.height = 0 /\ c = 0

\* The height of the hill is left out of the product.
gaussian_3d_unscaled(x2, y2, height_of_hill, spread2, peak_position_x2, peak_position_y2) ==
    [height |-> 1,
     num |-> (x2 - peak_position_x2) * (x2 - peak_position_x2)
             + (y2 - peak_position_y2) * (y2 - peak_position_y2),
     den |-> 2 * spread2 * spread2]

\* var_1 + var_2 = ((x - px)^2 + (y - py)^2) / (2 * spread^2)
gaussian_3d(x2, y2, height_of_hill, spread2, peak_position_x2, peak_position_y2) ==
    [height |-> height_of_hill,
     num |-> (x2 - peak_position_x2) * (x2 - peak_position_x2)
             + (y2 - peak_position_y2) * (y2 - peak_position_y2),
     den |-> 2 * spread2 * spread2]

\* The peak is put on the corner of the square.
peak_position2_corner(i_, dal) == 2 * (i_ * dal)

\* twice (i * dal) + dal / 2
peak_position2(i_, dal) == 2 * (i_ * dal) + dal

\* twice dal / 2
spread2_of(dal) == dal

\* np.arange(0, n)
np_arange(n) == [k \in 0 .. (n - 1) |-> k]

\* np.meshgrid(X, Y)
np_meshgrid(xs, ys) ==
    [X |-> [r \in DOMAIN ys |-> [c \in DOMAIN xs |-> xs[c]]],
     Y |-> [r \in DOMAIN ys |-> [c \in DOMAIN xs |-> ys[r]]]]

\* np.zeros(shape=(n, n)), for n >= 0
np_zeros(n) == [k \in 0 .. (n - 1) |-> [l \in 0 .. (n - 1) |-> FloatZero]]

\* the loops of lines 167-175 for the square (i_, j_)
fill_square(Z, attack_count, i_, j_, dal) ==
    [k \in DOMAIN Z |->
       IF k \in (i_ * dal) .. ((i_ + 1) * dal - 1)
       THEN [l \in DOMAIN Z[k] |->
               IF l \in (j_ * dal) .. ((j_ + 1) * dal - 1)
               THEN gaussian_3d(2 * k, 2 * l, attack_count, spread2_of(dal),
                                peak_position2(i_, dal), peak_position2(j_, dal))
               ELSE Z[k][l]]
       ELSE Z[k]]

\* the loop of line 155 over j_ = first .. last, in order (the range is walked
\* half by half)
RECURSIVE loop_j(_, _, _, _, _, _)
loop_j(Z, matrix, i_, first, last, dal) ==
    IF first > last \/ ~Evaluated(Z) THEN Z
    ELSE IF first = last THEN fill_square(Z, matrix[i_][first], i_, first, dal)
    ELSE loop_j(loop_j(Z, matrix, i_, first, (first + last) \div 2, dal),
                matrix, i_, (first + last) \div 2 + 1, last, dal)

\* the loop of line 154 over i_ = first .. last, in order
RECURSIVE loop_i(_, _, _, _, _)
loop_i(Z, matrix, first, last, dal) ==
    IF first > last \/ ~Evaluated(Z) THEN Z
    ELSE IF first = last THEN loop_j(Z, matrix, first, 0, 7, dal)
    ELSE loop_i(loop_i(Z, matrix, first, (first + last) \div 2, dal),
                matrix, (first + last) \div 2 + 1, last, dal)

\* lines 147-177 for a board of n >= 0 datapoints
surface(matrix, dal, n) ==
    Returned([X |-> np_meshgrid(np_arange(n), np_arange(n)).X,
              Y |-> np_meshgrid(np_arange(n), np_arange(n)).Y,
              Z |-> loop_i(np_zeros(n), matrix, 0, 7, dal)])

\* np.zeros raises ValueError on a negative dimension
create_XYZ(matrix, dal) ==
    IF dal * 8 < 0 THEN Raised("ValueError") ELSE surface(matrix, dal, dal * 8)

\* attack matrices: the count c1 on square s, c2 on the square after it
MatrixSquares == {0, 27, 62}

TwoSquareMatrix(s, c1, c2) ==
    [x \in 0 .. 7 |-> [y \in 0 .. 7 |->
       IF x * 8 + y = s THEN c1 ELSE IF x * 8 + y = s + 1 THEN c2 ELSE 0]]

Matrices == { TwoSquareMatrix(s, c1, c2) :
                s \in MatrixSquares, c1 \in 0 .. MaxCount, c2 \in 0 .. MaxCount }

CallCreateXYZ ==
    /\ xyz_pc = "call"
    /\ xyz_out' = create_XYZ(attack_matrix, datapoints_along_square)
    /\ xyz_pc' = "done"
    /\ UNCHANGED <<attack_matrix, datapoints_along_square, gameVars, acVars, sqVars>>

-----------------------------------------------------------------------------
(* Specifications                                                          *)

IdleGame ==
    /\ game = [board |-> StartingBoard, moves |-> <<>>]
    /\ game_board = StartingBoard
    /\ game_as_attacks_df = empty_df
    /\ i = 0
    /\ pc = "idle"
    /\ result = NoOutcome

IdleAttackCount ==
    /\ chess_board = StartingBoard
    /\ color = White
    /\ ac_pc = "idle"
    /\ ac_out = NoOutcome

IdleCreateXYZ ==
    /\ attack_matrix = zeros_8x8
    /\ datapoints_along_square = 1
    /\ xyz_pc = "idle"
    /\ xyz_out = NoOutcome

IdleSquares ==
    /\ square_numb = 0
    /\ sq_pc = "idle"
    /\ coords = <<0, 0>>
    /\ numb_back = 0

\* a call of get_game_as_attack_df(game)
InitGame ==
    /\ game \in Games
    /\ game_board = StartingBoard
    /\ game_as_attacks_df = empty_df
    /\ i = 0
    /\ pc = "call"
    /\ result = NoOutcome
    /\ IdleAttackCount /\ IdleCreateXYZ /\ IdleSquares

NextGame ==
    \/ Begin
    \/ InitialRow
    \/ PushMove
    \/ PushRaises
    \/ StoreRow
    \/ Return

SpecGame == InitGame /\ [][NextGame]_vars

\* a call of get_attack_count_by_color(chess_board, color)
InitAttackCount ==
    /\ chess_board \in Boards
    /\ color \in Colors
    /\ ac_pc = "call"
    /\ ac_out = NoOutcome
    /\ IdleGame /\ IdleCreateXYZ /\ IdleSquares

NextAttackCount == CallAttackCount

SpecAttackCount == InitAttackCount /\ [][NextAttackCount]_vars

\* a call of create_XYZ(attack_matrix, datapoints_along_square)
InitCreateXYZ ==
    /\ attack_matrix \in Matrices
    /\ datapoints_along_square \in -1 .. MaxDal
    /\ xyz_pc = "call"
    /\ xyz_out = NoOutcome
    /\ IdleGame /\ IdleAttackCount /\ IdleSquares

NextCreateXYZ == CallCreateXYZ

SpecCreateXYZ == InitCreateXYZ /\ [][NextCreateXYZ]_vars

\* a call of square_numb_to_2d_coords, then of coords_to_square_numb
InitSquares ==
    /\ square_numb \in SQUARES
    /\ sq_pc = "call"
    /\ coords = <<0, 0>>
    /\ numb_back = 0
    /\ IdleGame /\ IdleAttackCount /\ IdleCreateXYZ

NextSquares ==
    \/ CallToCoords
    \/ CallToSquareNumb

SpecSquares == InitSquares /\ [][NextSquares]_vars

Init == InitGame \/ InitAttackCount \/ InitCreateXYZ \/ InitSquares

Next == NextGame \/ NextAttackCount \/ NextCreateXYZ \/ NextSquares

Spec == Init /\ [][Next]_vars

-----------------------------------------------------------------------------
(* Properties of get_game_as_attack_df                                     *)

\* the game's initial position with its first k moves applied
RECURSIVE Replay(_, _, _)
Replay(board, moves, k) ==
    IF k = 0 THEN board ELSE push(Replay(board, moves, k - 1), moves[k])

\* every move of the game is legal where it is played
AllLegal(g) ==
    \A k \in 1 .. Len(g.moves) : is_legal(Replay(g.board, g.moves, k - 1), g.moves[k])

\* the place in the move sequence of the first move that is not legal
FirstIllegal(g) ==
    CHOOSE k \in 1 .. Len(g.moves) :
        /\ ~is_legal(Replay(g.board, g.moves, k - 1), g.moves[k])
        /\ \A h \in 1 .. (k - 1) : is_legal(Replay(g.board, g.moves, h - 1), g.moves[h])

\* moves pushed onto the working board so far
MovesApplied == IF pc = "row" THEN i + 1 ELSE i

\* the row of label k in a table
HasRow(df, k) == \E n \in 1 .. Len(df) : df[n].label = k
RowOf(df, k) == df[CHOOSE n \in 1 .. Len(df) : df[n].label = k]

\* C1: for a game of m legal moves the returned table has exactly m + 1 rows.
C1_RowCount ==
    (pc = "done" /\ AllLegal(game))
        => (result.kind = "return" /\ Len(result.value) = Len(game.moves) + 1)

\* C2: in the returned table the row of index k holds the white and the black
\* attack grid of the position reached after exactly k moves, for k = 0 .. m.
C2_RowKIsPositionK ==
    (pc = "done" /\ AllLegal(game))
        => \A k \in 0 .. Len(game.moves) :
              /\ HasRow(result.value, k)
              /\ RowOf(result.value, k).white =
                   get_attack_count_by_color(Replay(game.board, game.moves, k), White).value
              /\ RowOf(result.value, k).black =
                   get_attack_count_by_color(Replay(game.board, game.moves, k), Black).value

\* C6: when the move sequence holds an illegal move, the call never returns a
\* table, and the illegal move is never applied, so no row is produced for it
\* or for a later move.
C6_IllegalMoveFails ==
    ~AllLegal(game)
        => (pc # "done" /\ MovesApplied < FirstIllegal(game))

\* the working board is the initial position with the moves pushed so far
\* applied, and a call of get_attack_count_by_color on it leaves it as it is
C10_BoardInv ==
    pc \in {"row0", "loop", "row", "done", "raised"}
        => /\ game_board = Replay(game.board, game.moves, MovesApplied)
           /\ get_attack_count_by_color(game_board, White).board = game_board
           /\ get_attack_count_by_color(game_board, Black).board = game_board

\* C10: get_attack_count_by_color leaves the board it is given unchanged, the
\* working board changes by the move applications only, and the caller's game
\* record stays as it was.
C10_Frame == [](C10_BoardInv) /\ [][game' = game]_vars

C10_Witness ==
    /\ pc = "done"
    /\ Len(game.moves) = 2
    /\ AllLegal(game)
    /\ game_board # game.board
    /\ game_board = Replay(game.board, game.moves, 2)

-----------------------------------------------------------------------------
(* Properties of get_attack_count_by_color                                 *)

ValidColor(col) == str_lower(col) = White \/ str_lower(col) = Black

\* C3: with a color that is not "white" or "black" in any letter case, the call
\* raises and returns no grid.
C3_InvalidColorRaises ==
    (ac_pc = "done" /\ ~ValidColor(color))
        => (ac_out.kind = "raise" /\ ac_out.exc # "")

C3_Witness ==
    /\ ac_pc = "done"
    /\ color = <<"b", "l", "u", "e">>
    /\ chess_board = StartingBoard
    /\ ac_out.kind = "raise"
    /\ ac_out.exc = "TypeError"

\* the squares holding a piece of color c that attacks square s
Attackers(board, c, s) ==
    { q \in SQUARES :
        /\ board.pieces[q] # NoPiece
        /\ board.pieces[q].color = c
        /\ s \in attacks(board, q) }

\* C5: with a valid color the call returns an 8 x 8 grid whose entry at row
\* s div 8, column s mod 8 is the number of squares holding a piece of that
\* color that attacks s: never negative, and 0 where no such piece attacks.
C5_GridCountsAttackers ==
    (ac_pc = "done" /\ ValidColor(color))
        => /\ ac_out.kind = "return"
           /\ DOMAIN ac_out.value = 0 .. 7
           /\ \A x \in 0 .. 7 : DOMAIN ac_out.value[x] = 0 .. 7
           /\ \A s \in SQUARES :
                /\ ac_out.value[s \div 8][s % 8] =
                     Cardinality(Attackers(chess_board, str_lower(color) = White, s))
                /\ ac_out.value[s \div 8][s % 8] >= 0

C5_Witness ==
    /\ ac_pc = "done"
    /\ ac_out.kind = "return"
    /\ str_lower(color) = Black
    /\ color # Black
    /\ \E s \in SQUARES : ac_out.value[s \div 8][s % 8] >= 2
    /\ \E s \in SQUARES : ac_out.value[s \div 8][s % 8] = 0
    /\ \E s \in SQUARES : ac_out.value[s \div 8][s % 8] # ac_out.value[s % 8][s \div 8]

-----------------------------------------------------------------------------
(* Properties of create_XYZ                                                *)

HasShape(grid, n) ==
    /\ DOMAIN grid = 0 .. (n - 1)
    /\ \A k \in 0 .. (n - 1) : DOMAIN grid[k] = 0 .. (n - 1)

\* C4: with datapoints_along_square <= 0 the call fails with an
\* invalid-argument error and never returns (X, Y, Z).
C4_NonPositiveFails ==
    (xyz_pc = "done" /\ datapoints_along_square <= 0)
        => (xyz_out.kind = "raise" /\ xyz_out.exc = "ValueError")

\* C7: for d > 0 and an all-zero attack matrix, X, Y and Z have shape
\* (8d, 8d) and every value of Z is 0.
C7_ZeroMatrixZeroSurface ==
    (xyz_pc = "done" /\ datapoints_along_square > 0 /\ attack_matrix = zeros_8x8)
        => /\ xyz_out.kind = "return"
           /\ HasShape(xyz_out.value.X, 8 * datapoints_along_square)
           /\ HasShape(xyz_out.value.Y, 8 * datapoints_along_square)
           /\ HasShape(xyz_out.value.Z, 8 * datapoints_along_square)
           /\ \A k, l \in 0 .. (8 * datapoints_along_square - 1) :
                float_is_zero(xyz_out.value.Z[k][l])

C7_Witness ==
    /\ xyz_pc = "done"
    /\ datapoints_along_square = 3
    /\ attack_matrix = zeros_8x8
    /\ xyz_out.kind = "return"
    /\ float_is_zero(xyz_out.value.Z[23][0])

\* C8: for even d > 0, Z at the peak coordinate of square (i, j) equals
\* attack_matrix[i][j], whatever the neighbouring squares hold.
C8_PeakEqualsCount ==
    (xyz_pc = "done" /\ datapoints_along_square > 0 /\ datapoints_along_square % 2 = 0)
        => /\ xyz_out.kind = "return"
           /\ \A x, y \in 0 .. 7 :
                float_equals(
                    xyz_out.value.Z[x * datapoints_along_square
                                      + datapoints_along_square \div 2]
                                   [y * datapoints_along_square
                                      + datapoints_along_square \div 2],
                    attack_matrix[x][y])

\* d = 4, count 5 on square (3, 3) next to count 2 on square (3, 4)
C8_Witness ==
    /\ xyz_pc = "done"
    /\ datapoints_along_square = 4
    /\ attack_matrix = TwoSquareMatrix(27, 5, 2)
    /\ float_equals(xyz_out.value.Z[14][14], 5)
    /\ float_equals(xyz_out.value.Z[14][18], 2)
    /\ float_is_zero(xyz_out.value.Z[14][10])
    /\ ~float_equals(xyz_out.value.Z[14][15], 5)

-----------------------------------------------------------------------------
(* Properties of the square numbering                                      *)

\* C9: for n in 0 .. 63, square_numb_to_2d_coords(n) is a pair of 0 .. 7 that
\* coords_to_square_numb takes back to n, and every pair of 0 .. 7 is the
\* coordinates of the square number coords_to_square_numb gives it.
C9_RoundTrip ==
    /\ sq_pc \in {"coords", "done"}
         => (coords[1] \in 0 .. 7 /\ coords[2] \in 0 .. 7
             /\ coords[1] * 8 + coords[2] = square_numb)
    /\ sq_pc = "done" => numb_back = square_numb
    /\ \A x, y \in 0 .. 7 :
         /\ coords_to_square_numb(x, y) \in SQUARES
         /\ square_numb_to_2d_coords(coords_to_square_numb(x, y)) = <<x, y>>

C9_Witness ==
    /\ sq_pc = "done"
    /\ square_numb = 10
    /\ coords = <<1, 2>>
    /\ numb_back = 10

=============================================================================
